---------------------------- MODULE Spec2Model ----------------------------
(***************************************************************************)
(* State-machine model of the nginx docker ingress controller:             *)
(*   common.py     DockerAdapter (secret / config store), ServiceAdapter,  *)
(*                 VersionedBase                                           *)
(*   robocert.py   RoboCert.order_cert (one ACME order)                    *)
(*   robot.py      Robot.observe / observe_loop (the observer)             *)
(*   controller.py Controller.ensure_nginx_config / ensure_nginx_service   *)
(*                                                                         *)
(* Names of secrets and configs are modelled as the sequence of their      *)
(* "."-separated components: "ndi.svc.<id>.key.<N>" is                     *)
(* <<"svc", id, "key", N>>, "ndi.challange.<T>" is <<"challange", T>>.     *)
(* Time is counted in units of 12 hours.                                   *)
(***************************************************************************)
EXTENDS Integers, Sequences, FiniteSets, TLC

VARIABLES
    secrets,    \* the orchestrator's secret store: name -> [data, labels]
    configs,    \* the orchestrator's config store: name -> [data, labels]
    authz,      \* ACME server: token -> status of its authorization
    ord,        \* observer process: service id -> state of its order_cert task
    obs,        \* observer process: position of Robot.observe_loop
    now,        \* wall clock (UTC), in units of 12 hours
    tz,         \* UTC offset of the observer's local time zone, same unit
    ssl,        \* the services that carry the label nginx-ingress.ssl
    rc,         \* controller process: state of the ensure_nginx_service loop
    nginx,      \* the reverse-proxy service: None or its mounted secret names
    quiet,      \* number of reconcile passes begun since the store last changed
    probe       \* the call under observation: its arguments and its result

vars == <<secrets, configs, authz, ord, obs, now, tz, ssl, rc, nginx, quiet, probe>>

-----------------------------------------------------------------------------
(* Bounds of the model *)

MaxVersion == 1
MaxNow == 1
CertLife == 14
MaxTokens == 3
MaxHosts == 2

(* Program constants, in units of 12 hours *)
SevenDays == 14

Services == {"s1", "s2"}
Tokens == 1..MaxTokens
TzOffsets == {0, 1}
Thumbprint == "thumb"
None == <<>>
Versions == 0..MaxVersion

-----------------------------------------------------------------------------
(* common.py: names *)

KeyPrefix(s) == <<"svc", s, "key">>
CertPrefix(s) == <<"svc", s, "crt">>
DhparamPrefix == <<"dhparam">>
ChallengeName(t) == <<"challange", t>>
ConfName(h) == <<"conf", h>>

WithVersion(prefix, version) == Append(prefix, version)

StartsWith(name, prefix) ==
    /\ Len(name) >= Len(prefix)
    /\ SubSeq(name, 1, Len(prefix)) = prefix

(* common.py: DockerAdapter *)

ListSecrets(store, prefix) == {n \in DOMAIN store : StartsWith(n, prefix)}

SecretExists(store, name) == name \in DOMAIN store

DelSecret(store, name) == [n \in (DOMAIN store) \ {name} |-> store[n]]

CreateSecret(store, name, data, labels) ==
    [n \in (DOMAIN store) \cup {name} |->
        IF n = name THEN [data |-> data, labels |-> labels] ELSE store[n]]

WriteSecretCreateFirst(store, name, data, labels) ==
    DelSecret(CreateSecret(store, name, data, labels), name)

(* write_secret: del_secret, then create *)
WriteSecret(store, name, data, labels) ==
    CreateSecret(DelSecret(store, name), name, data, labels)

ConfigDel(store, name) == [n \in (DOMAIN store) \ {name} |-> store[n]]

ConfigCreate(store, name, data, labels) ==
    [n \in (DOMAIN store) \cup {name} |->
        IF n = name THEN [data |-> data, labels |-> labels] ELSE store[n]]

ConfigWrite(store, name, data, labels) ==
    ConfigCreate(ConfigDel(store, name), name, data, labels)

DelReturnsTrue(store, name) == TRUE

(* del_secret / config_del: True when the entry was there, False on NotFound *)
DelReturns(store, name) == name \in DOMAIN store

(* common.py: VersionedBase *)

VersionsOf(store, prefix) ==
    LET list == ListSecrets(store, prefix)
    IN  [v \in {n[Len(n)] : n \in list} |->
            CHOOSE n \in list : n[Len(n)] = v]

Max(S) == CHOOSE x \in S : \A y \in S : y <= x

LatestVersion(store, prefix) ==
    LET versions == VersionsOf(store, prefix)
    IN  IF DOMAIN versions = {} THEN None
        ELSE <<Max(DOMAIN versions), versions[Max(DOMAIN versions)]>>

CommonVersions(store, mine, other) ==
    LET my_versions == VersionsOf(store, mine)
        other_versions == VersionsOf(store, other)
    IN  [v \in (DOMAIN my_versions) \cap (DOMAIN other_versions) |->
            <<my_versions[v], other_versions[v]>>]

(* common.py: ServiceAdapter *)

LatestCertPairWithVersionByKeys(store, s) ==
    LET keys == VersionsOf(store, KeyPrefix(s))
    IN  IF DOMAIN keys = {} THEN None
        ELSE LET max_key == Max(DOMAIN keys)
             IN  <<keys[max_key], WithVersion(CertPrefix(s), max_key), max_key>>

LatestCertPairWithVersion(store, s) ==
    LET common == CommonVersions(store, KeyPrefix(s), CertPrefix(s))
    IN  IF DOMAIN common = {} THEN None
        ELSE LET max_key == Max(DOMAIN common)
             IN  <<common[max_key][1], common[max_key][2], max_key>>

LatestCertPair(store, s) ==
    LET latest == LatestCertPairWithVersion(store, s)
    IN  IF latest = None THEN None ELSE <<latest[1], latest[2]>>

LatestCertVersion(store, s) ==
    LET latest == LatestCertPairWithVersion(store, s)
    IN  IF latest = None THEN -1 ELSE latest[3]


Label(entry, key) == (CHOOSE kv \in entry.labels : kv[1] = key)[2]

(* naive datetimes are wall-clock readings; the local wall clock is UTC + tz *)
Strptime(not_after) == not_after
Mktime(naive, offset) == naive - offset
UtcFromTimestamp(unix) == unix
DatetimeNow(clock, offset) == clock + offset

CertRenewable(store, s, clock, offset) ==
    LET latest_cert_pair == LatestCertPair(store, s)
    IN  IF latest_cert_pair = None THEN FALSE
        ELSE LET cert == store[latest_cert_pair[2]]
                 secret_expiry == UtcFromTimestamp(Label(cert, "expires"))
             IN  secret_expiry < DatetimeNow(clock, offset) + SevenDays

AcmeSsl(s) == s \in ssl

ServiceNeedsNewOnly(store, s, clock, offset) ==
    IF LatestCertPair(store, s) = None THEN "new" ELSE "none"

(* robot.py: Robot.service_needs *)
ServiceNeeds(store, s, clock, offset) ==
    IF LatestCertPair(store, s) = None THEN "new"
    ELSE IF CertRenewable(store, s, clock, offset) THEN "renew"
    ELSE "none"

-----------------------------------------------------------------------------
(* robocert.py: RoboCert.order_cert, one task per service and tick.        *)
(* pc names the call the task is waiting in or about to make.              *)

IdleOrder ==
    [pc |-> "idle", need |-> "none", base |-> -1, snap |-> {}, why |-> "",
     toks |-> <<>>, wi |-> 0, ti |-> 0, ai |-> 0,
     next |-> 0, key |-> 0, notAfter |-> 0]

(* the task has ended: its locals are gone, what is kept records the run *)
Ended(o, pc, why) ==
    [IdleOrder EXCEPT !.pc = pc, !.need = o.need, !.base = o.base,
                      !.snap = o.snap, !.toks = o.toks, !.why = why]

Fail(s, why) == [ord EXCEPT ![s] = Ended(ord[s], "failed", why)]

(* the calls after which the task runs on without awaiting: no other task  *)
(* of the observer's event loop runs before they return                    *)
SyncPcs == {"chall_create", "del_key", "del_cert", "write_key", "write_cert"}
ActivePcs == {"create", "auths", "chall_create", "trigger", "await_challs",
              "await_order", "finalize", "get_cert",
              "del_key", "del_cert", "write_key", "write_cert"}
EndPcsNoFailure == {"idle", "done"}
EndPcs == {"idle", "done", "failed"}

RobotFreeUnlessFailed(s) ==
    \A o \in Services \ {s} : ord[o].pc \notin SyncPcs \cup {"failed"}

RobotFree(s) == \A o \in Services \ {s} : ord[o].pc \notin SyncPcs

SvcNames(store, s) ==
    ListSecrets(store, KeyPrefix(s)) \cup ListSecrets(store, CertPrefix(s))

KeyAuthTokenOnly(t) == <<t>>

(* robocert.py 65: the key authorization written for token t *)
KeyAuth(t) == <<t, Thumbprint>>

(* The ACME server gives every challenge a token of its own (RFC 8555     *)
(* 8.3): the tokens handed out so far are 1..Issued, an order of n hosts   *)
(* gets the next n.                                                        *)
Issued == Cardinality({t \in Tokens : authz[t] # "unused"})

NewTokens(n) == [i \in 1..n |-> Issued + i]

NextCertVersionReuse(store, s) ==
    IF LatestCertVersion(store, s) = -1 THEN 0 ELSE LatestCertVersion(store, s)

NextCertVersion(store, s) ==
    IF LatestCertVersion(store, s) = -1 THEN 0 ELSE LatestCertVersion(store, s) + 1

UnchangedButOrd == <<secrets, configs, authz, obs, now, tz, ssl, rc, nginx, quiet, probe>>

(* line 48-57: createOrder, then the version to write is read *)
CreateOrder(s) ==
    /\ ord[s].pc = "create"
    /\ RobotFree(s)
    /\ \/ \E n \in 0..MaxHosts :
            /\ Issued + n <= MaxTokens
            /\ authz' = [t \in Tokens |->
                            IF t \in Issued + 1..Issued + n THEN "pending"
                            ELSE authz[t]]
            /\ ord' = [ord EXCEPT ![s].pc = "auths",
                                  ![s].toks = NewTokens(n),
                                  ![s].next = NextCertVersion(secrets, s)]
       \/ /\ ord' = Fail(s, "order")
          /\ UNCHANGED authz
    /\ UNCHANGED <<secrets, configs, obs, now, tz, ssl, rc, nginx, quiet, probe>>

(* line 69-71: the order offers no http-01 challenge *)
NoChallenges(s) ==
    /\ ord[s].pc = "auths"
    /\ RobotFree(s)
    /\ Len(ord[s].toks) = 0
    /\ ord' = Fail(s, "challenges")
    /\ UNCHANGED UnchangedButOrd

(* line 63 with common.py 117: config_write deletes the entry ... *)
ChallDel(s) ==
    /\ ord[s].pc = "auths"
    /\ RobotFree(s)
    /\ ord[s].wi < Len(ord[s].toks)
    /\ configs' = ConfigDel(configs, ChallengeName(ord[s].toks[ord[s].wi + 1]))
    /\ ord' = [ord EXCEPT ![s].pc = "chall_create"]
    /\ UNCHANGED <<secrets, authz, obs, now, tz, ssl, rc, nginx, quiet, probe>>

(* ... and common.py 118: creates it *)
ChallCreate(s) ==
    /\ ord[s].pc = "chall_create"
    /\ LET t == ord[s].toks[ord[s].wi + 1]
       IN  configs' = ConfigCreate(configs, ChallengeName(t), KeyAuth(t), {})
    /\ ord' = [ord EXCEPT ![s].pc = "trigger", ![s].wi = @ + 1]
    /\ UNCHANGED <<secrets, authz, obs, now, tz, ssl, rc, nginx, quiet, probe>>

TriggerBeforeWrite(s) ==
    /\ ord[s].pc = "auths"
    /\ RobotFree(s)
    /\ ord[s].ti < Len(ord[s].toks)
    /\ LET t == ord[s].toks[ord[s].ti + 1]
       IN  authz' = [authz EXCEPT ![t] = IF @ = "pending" THEN "processing" ELSE @]
    /\ ord' = [ord EXCEPT ![s].ti = @ + 1]
    /\ UNCHANGED <<secrets, configs, obs, now, tz, ssl, rc, nginx, quiet, probe>>

TriggerStatus(status) == IF status = "pending" THEN "processing" ELSE status

(* line 67: chall.begin() asks the server to validate the challenge *)
Trigger(s) ==
    /\ ord[s].pc = "trigger"
    /\ RobotFree(s)
    /\ LET t == ord[s].toks[ord[s].ti + 1]
       IN  authz' = [authz EXCEPT ![t] = TriggerStatus(@)]
    /\ ord' = [ord EXCEPT ![s].ti = @ + 1,
                          ![s].pc = IF ord[s].ti + 1 = Len(ord[s].toks)
                                    THEN "await_challs" ELSE "auths"]
    /\ UNCHANGED <<secrets, configs, obs, now, tz, ssl, rc, nginx, quiet, probe>>

(* line 75-76: chall.await_status("valid"), challenge by challenge; on an  *)
(* invalid authorization the call returns or raises                        *)
AwaitChall(s) ==
    /\ ord[s].pc = "await_challs"
    /\ RobotFree(s)
    /\ LET t == ord[s].toks[ord[s].ai + 1]
           on == [ord EXCEPT ![s].ai = @ + 1,
                             ![s].pc = IF ord[s].ai + 1 = Len(ord[s].toks)
                                       THEN "await_order" ELSE "await_challs"]
       IN  \/ /\ authz[t] = "valid"
              /\ ord' = on
           \/ /\ authz[t] = "invalid"
              /\ \/ ord' = on
                 \/ ord' = Fail(s, "invalid")
    /\ UNCHANGED UnchangedButOrd

OrderToks(s) == {ord[s].toks[i] : i \in 1..Len(ord[s].toks)}

(* line 84-90: the order leaves pending; anything but ready fails *)
AwaitOrder(s) ==
    /\ ord[s].pc = "await_order"
    /\ RobotFree(s)
    /\ \A t \in OrderToks(s) : authz[t] \in {"valid", "invalid"}
    /\ \/ /\ \A t \in OrderToks(s) : authz[t] = "valid"
          /\ ord' = [ord EXCEPT ![s].pc = "finalize"]
       \/ ord' = Fail(s, IF \E t \in OrderToks(s) : authz[t] = "invalid"
                         THEN "invalid" ELSE "status")
    /\ UNCHANGED UnchangedButOrd

(* line 92-96: every order generates a private key of its own. The key is *)
(* numbered after the order's first token, which no other order has, so    *)
(* that two key secrets of one name written by two orders differ.          *)
FreshKey(s) == ord[s].toks[1]

(* line 92-106: fresh key, CSR, finalize, wait for valid *)
Finalize(s) ==
    /\ ord[s].pc = "finalize"
    /\ RobotFree(s)
    /\ ord' = [ord EXCEPT ![s].pc = "get_cert", ![s].key = FreshKey(s)]
    /\ UNCHANGED UnchangedButOrd

(* line 110-119: the certificate is fetched and its notAfter parsed *)
GetCert(s) ==
    /\ ord[s].pc = "get_cert"
    /\ RobotFree(s)
    /\ ord' = [ord EXCEPT ![s].pc = "del_key", ![s].notAfter = now + CertLife]
    /\ UNCHANGED UnchangedButOrd

KeySecretNameFirst(s) == WithVersion(KeyPrefix(s), 0)

KeySecretName(s) == WithVersion(KeyPrefix(s), ord[s].next)
CertSecretName(s) == WithVersion(CertPrefix(s), ord[s].next)

CertExpiryUnix(s) == Mktime(Strptime(ord[s].notAfter), tz)

(* line 130-132 *)
DelKey(s) ==
    /\ ord[s].pc = "del_key"
    /\ secrets' = DelSecret(secrets, KeySecretName(s))
    /\ ord' = [ord EXCEPT ![s].pc = "del_cert"]
    /\ quiet' = IF secrets' = secrets THEN quiet ELSE 0
    /\ UNCHANGED <<configs, authz, obs, now, tz, ssl, rc, nginx, probe>>

(* line 134-136 *)
DelCert(s) ==
    /\ ord[s].pc = "del_cert"
    /\ secrets' = DelSecret(secrets, CertSecretName(s))
    /\ ord' = [ord EXCEPT ![s].pc = "write_key"]
    /\ quiet' = IF secrets' = secrets THEN quiet ELSE 0
    /\ UNCHANGED <<configs, authz, obs, now, tz, ssl, rc, nginx, probe>>

(* line 138 *)
WriteKey(s) ==
    /\ ord[s].pc = "write_key"
    /\ secrets' = WriteSecret(secrets, KeySecretName(s), <<"key", ord[s].key>>, {})
    /\ ord' = [ord EXCEPT ![s].pc = "write_cert"]
    /\ quiet' = 0
    /\ UNCHANGED <<configs, authz, obs, now, tz, ssl, rc, nginx, probe>>

(* line 139-145 *)
WriteCert(s) ==
    /\ ord[s].pc = "write_cert"
    /\ secrets' = WriteSecret(secrets, CertSecretName(s),
                              <<"cert", ord[s].notAfter>>,
                              {<<"expires", CertExpiryUnix(s)>>})
    /\ ord' = [ord EXCEPT ![s] = Ended(ord[s], "done", "")]
    /\ quiet' = 0
    /\ UNCHANGED <<configs, authz, obs, now, tz, ssl, rc, nginx, probe>>

(* any call of the task may raise: the ACME client, the orchestrator API *)
OrderRaise(s) ==
    /\ ord[s].pc \in ActivePcs
    /\ RobotFree(s)
    /\ ord' = Fail(s, "raise")
    /\ UNCHANGED UnchangedButOrd


-----------------------------------------------------------------------------
(* The ACME server validates a triggered challenge by fetching the         *)
(* responder's answer, which is read from the config store (challenge.py)  *)

ChallengeAnswered(t) ==
    /\ ChallengeName(t) \in DOMAIN configs
    /\ configs[ChallengeName(t)].data = <<t, Thumbprint>>

Validate(t) ==
    /\ authz[t] = "processing"
    /\ \/ authz' = [authz EXCEPT ![t] =
                        IF ChallengeAnswered(t) THEN "valid" ELSE "invalid"]
       \/ authz' = [authz EXCEPT ![t] = "invalid"]
    /\ UNCHANGED <<secrets, configs, ord, obs, now, tz, ssl, rc, nginx, quiet, probe>>

(* the clock is read in units of 12 hours; it moves on while the observer  *)
(* sleeps between two ticks                                                *)
Advance ==
    /\ now < MaxNow
    /\ obs = "sleep"
    /\ now' = now + 1
    /\ UNCHANGED <<secrets, configs, authz, ord, obs, tz, ssl, rc, nginx, quiet, probe>>

-----------------------------------------------------------------------------
(* robot.py: Robot.observe, Robot.observe_loop *)

StartOrder(s) ==
    IF /\ AcmeSsl(s)
       /\ ServiceNeeds(secrets, s, now, tz) # "none"
       /\ LatestCertVersion(secrets, s) < MaxVersion
    THEN [IdleOrder EXCEPT !.pc = "create",
                           !.need = ServiceNeeds(secrets, s, now, tz),
                           !.base = LatestCertVersion(secrets, s),
                           !.snap = SvcNames(secrets, s)]
    ELSE IdleOrder

(* line 53-70: classify the services and create one task for each in need *)
Observe ==
    /\ obs = "sleep"
    /\ ord' = [s \in Services |-> StartOrder(s)]
    /\ obs' = "wait"
    /\ UNCHANGED <<secrets, configs, authz, now, tz, ssl, rc, nginx, quiet, probe>>

ObserveDoneFirstCompleted ==
    /\ obs = "wait"
    /\ \E s \in Services : ord[s].pc \in EndPcs
    /\ obs' = "sleep"
    /\ UNCHANGED <<secrets, configs, authz, ord, now, tz, ssl, rc, nginx, quiet, probe>>

(* line 72-75, 82: asyncio.wait returns when every task has ended *)
ObserveDone ==
    /\ obs = "wait"
    /\ \A s \in Services : ord[s].pc \in EndPcs
    /\ ord' = [s \in Services |-> IdleOrder]
    /\ obs' = "sleep"
    /\ UNCHANGED <<secrets, configs, authz, now, tz, ssl, rc, nginx, quiet, probe>>

-----------------------------------------------------------------------------
(* controller.py: Controller.nginx_config, ensure_nginx_config,            *)
(* ensure_nginx_service and the loop of main                               *)

SvcIndex(s) == IF s = "s1" THEN 0 ELSE 1

(* the rendered text: a function of what the template reads of each service *)
Render(store) ==
    [s \in Services |-> <<AcmeSsl(s), LatestCertPair(store, s)>>]

PairCode(pair) == IF pair = None THEN 0 ELSE pair[2][Len(pair[2])] + 1

RECURSIVE Power(_, _)
Power(b, e) == IF e = 0 THEN 1 ELSE b * Power(b, e - 1)

RECURSIVE Digest(_, _)
Digest(config, todo) ==
    IF todo = {} THEN 0
    ELSE LET s == CHOOSE x \in todo : TRUE
         IN  PairCode(config[s][2]) * Power(MaxVersion + 3, SvcIndex(s))
             + Digest(config, todo \ {s})

(* SecretContainer.hash: sha1 of the text, taken to be collision-free *)
Sha1(config) == Digest(config, DOMAIN config)

Crashed == [pc |-> "dead", hash |-> -1, prev |-> -1, wrote |-> FALSE, refs |-> {},
            si |-> 0, keys |-> <<>>, objs |-> {}]

NoService == [exists |-> FALSE, conf |-> None, secrets |-> {}]

RcUnchanged == <<configs, authz, ord, obs, now, tz, ssl, probe>>

(* controller.py 62-72: render and hash *)
RcRender ==
    /\ rc.pc = "sleep"
    /\ rc' = [rc EXCEPT !.pc = "conf",
                        !.hash = Sha1(Render(secrets)),
                        !.prev = rc.hash,
                        !.wrote = FALSE,
                        !.refs = {},
                        !.objs = {}]
    /\ quiet' = IF quiet < 2 THEN quiet + 1 ELSE 2
    /\ UNCHANGED <<secrets, nginx>>
    /\ UNCHANGED RcUnchanged

EnsureNginxConfigAlways(store, hash) ==
    [store |-> WriteSecret(store, ConfName(hash), <<"conf", hash>>, {}),
     wrote |-> TRUE]

(* controller.py 73-77: the store afterwards, and whether write_secret ran *)
EnsureNginxConfig(store, hash) ==
    IF SecretExists(store, ConfName(hash))
    THEN [store |-> store, wrote |-> FALSE]
    ELSE [store |-> WriteSecret(store, ConfName(hash), <<"conf", hash>>, {}),
          wrote |-> TRUE]

RcEnsureConf ==
    /\ rc.pc = "conf"
    /\ secrets' = EnsureNginxConfig(secrets, rc.hash).store
    /\ rc' = [rc EXCEPT !.pc = "dhparams",
                        !.wrote = EnsureNginxConfig(secrets, rc.hash).wrote]
    /\ UNCHANGED <<nginx, quiet>>
    /\ UNCHANGED RcUnchanged

(* controller.py 88-92: the latest dhparam secret, asserted to exist *)
RcDhparams ==
    /\ rc.pc = "dhparams"
    /\ LET latest == LatestVersion(secrets, DhparamPrefix)
       IN  IF latest = None
           THEN rc' = Crashed
           ELSE rc' = [rc EXCEPT !.pc = "keys",
                                 !.refs = {ConfName(rc.hash), latest[2]}]
    /\ UNCHANGED <<secrets, nginx, quiet>>
    /\ UNCHANGED RcUnchanged

PairRefsKeysOnly(pair) == IF pair = None THEN {} ELSE {pair[1]}

(* controller.py 95-101: a reference for each secret of the pair *)
PairRefs(pair) == IF pair = None THEN {} ELSE {pair[1], pair[2]}

(* the services in the order of adapter.services *)
SvcAt(i) == IF i = 0 THEN "s1" ELSE "s2"
LastSvc == Cardinality(Services) - 1

(* common.py 439-446 as the controller runs it: self.versions lists the    *)
(* keys, other.versions lists the certs afterwards, in a second call       *)
CommonVersionsAcross(my_store, other_store, mine, other) ==
    LET my_versions == VersionsOf(my_store, mine)
        other_versions == VersionsOf(other_store, other)
    IN  [v \in (DOMAIN my_versions) \cap (DOMAIN other_versions) |->
            <<my_versions[v], other_versions[v]>>]

(* common.py 230-248 over the two listings *)
LatestCertPairAcross(my_store, other_store, s) ==
    LET common == CommonVersionsAcross(my_store, other_store, KeyPrefix(s), CertPrefix(s))
    IN  IF DOMAIN common = {} THEN None
        ELSE common[Max(DOMAIN common)]

(* controller.py 94 with common.py 441: the lazy map reaches the next      *)
(* service and its keys are listed; the listing holds the secret objects   *)
RcReadKeys ==
    /\ rc.pc = "keys"
    /\ rc' = [rc EXCEPT !.pc = "certs",
                        !.keys = [n \in ListSecrets(secrets, KeyPrefix(SvcAt(rc.si))) |->
                                     secrets[n]]]
    /\ UNCHANGED <<secrets, nginx, quiet>>
    /\ UNCHANGED RcUnchanged

(* common.py 442-446 and controller.py 95-101: the certs are listed, the   *)
(* latest common version gives the pair, whose objects are referenced      *)
RcReadCerts ==
    /\ rc.pc = "certs"
    /\ LET pair == LatestCertPairAcross(rc.keys, secrets, SvcAt(rc.si))
       IN  rc' = [rc EXCEPT !.pc = IF rc.si = LastSvc THEN "service" ELSE "keys",
                            !.si = IF rc.si = LastSvc THEN 0 ELSE rc.si + 1,
                            !.keys = <<>>,
                            !.refs = @ \cup PairRefs(pair),
                            !.objs = @ \cup
                                IF pair = None THEN {}
                                ELSE {<<pair[1], rc.keys[pair[1]]>>,
                                      <<pair[2], secrets[pair[2]]>>}]
    /\ UNCHANGED <<secrets, nginx, quiet>>
    /\ UNCHANGED RcUnchanged

RcServiceAlwaysUpdates ==
    /\ rc.pc = "service"
    /\ nginx' = [exists |-> TRUE, conf |-> ConfName(rc.hash), secrets |-> rc.refs]
    /\ rc' = [rc EXCEPT !.pc = "sleep"]
    /\ UNCHANGED <<secrets, quiet>>
    /\ UNCHANGED RcUnchanged

(* controller.py 105-140: create, update on a changed config name, or skip *)
RcService ==
    /\ rc.pc = "service"
    /\ nginx' = IF ~nginx.exists \/ nginx.conf # ConfName(rc.hash)
                THEN [exists |-> TRUE, conf |-> ConfName(rc.hash),
                      secrets |-> rc.refs]
                ELSE nginx
    /\ rc' = [rc EXCEPT !.pc = "sleep"]
    /\ UNCHANGED <<secrets, quiet>>
    /\ UNCHANGED RcUnchanged

(* an orchestrator call of the pass raises; main catches nothing *)
RcRaise ==
    /\ rc.pc \in {"conf", "dhparams", "keys", "certs", "service"}
    /\ rc' = Crashed
    /\ UNCHANGED <<secrets, nginx, quiet>>
    /\ UNCHANGED RcUnchanged

-----------------------------------------------------------------------------
(* The whole system: observer, ACME server, controller, clock *)

DhparamEntry == [data |-> <<"dh">>, labels |-> {<<"expires", 4 * SevenDays>>}]

EmptyStore == [n \in {} |-> DhparamEntry]

InitStores ==
    {EmptyStore, CreateSecret(EmptyStore, WithVersion(DhparamPrefix, 0),
                              DhparamEntry.data, DhparamEntry.labels)}

Init ==
    /\ secrets \in InitStores
    /\ configs = [n \in {} |-> KeyAuth(1)]
    /\ authz = [t \in Tokens |-> "unused"]
    /\ ord = [s \in Services |-> IdleOrder]
    /\ obs = "sleep"
    /\ now = 0
    /\ tz \in TzOffsets
    /\ ssl = {"s1"}
    /\ rc = [pc |-> "sleep", hash |-> -1, prev |-> -1, wrote |-> FALSE, refs |-> {},
            si |-> 0, keys |-> <<>>, objs |-> {}]
    /\ nginx = NoService
    /\ quiet = 0
    /\ probe = None

OrderStep(s) ==
    \/ CreateOrder(s)
    \/ NoChallenges(s)
    \/ ChallDel(s)
    \/ ChallCreate(s)
    \/ Trigger(s)
    \/ AwaitChall(s)
    \/ AwaitOrder(s)
    \/ Finalize(s)
    \/ GetCert(s)
    \/ DelKey(s)
    \/ DelCert(s)
    \/ WriteKey(s)
    \/ WriteCert(s)
    \/ OrderRaise(s)

Next ==
    \/ Observe
    \/ ObserveDone
    \/ \E s \in Services : OrderStep(s)
    \/ \E t \in Tokens : Validate(t)
    \/ Advance
    \/ RcRender
    \/ RcEnsureConf
    \/ RcDhparams
    \/ RcReadKeys
    \/ RcReadCerts
    \/ RcService
    \/ RcRaise

Spec == Init /\ [][Next]_vars

(* The observer alone, two services in need of certificates *)

InitObserver ==
    /\ secrets = EmptyStore
    /\ configs = [n \in {} |-> KeyAuth(1)]
    /\ authz = [t \in Tokens |-> "unused"]
    /\ ord = [s \in Services |-> IdleOrder]
    /\ obs = "sleep"
    /\ now = 0
    /\ tz \in TzOffsets
    /\ ssl = Services
    /\ rc = [pc |-> "sleep", hash |-> -1, prev |-> -1, wrote |-> FALSE, refs |-> {},
            si |-> 0, keys |-> <<>>, objs |-> {}]
    /\ nginx = NoService
    /\ quiet = 0
    /\ probe = None

NextObserver ==
    \/ Observe
    \/ ObserveDone
    \/ \E s \in Services : OrderStep(s)
    \/ \E t \in Tokens : Validate(t)
    \/ Advance

SpecObserver == InitObserver /\ [][NextObserver]_vars

(* the event loop runs every task that can run, the ACME server answers *)
FairObserver ==
    /\ WF_vars(Observe)
    /\ WF_vars(ObserveDone)
    /\ \A s \in Services : WF_vars(OrderStep(s))
    /\ \A t \in Tokens : WF_vars(Validate(t))

SpecObserverFair == InitObserver /\ [][NextObserver]_vars /\ FairObserver

(* Reads of latest_cert_pair_with_version over every content of the store *)

AllSvcNames ==
    {WithVersion(KeyPrefix(s), v) : s \in Services, v \in Versions}
    \cup {WithVersion(CertPrefix(s), v) : s \in Services, v \in Versions}

SomeEntry(n) ==
    IF n[3] = "key" THEN [data |-> <<"key", "k1">>, labels |-> {}]
    ELSE [data |-> <<"cert", CertLife>>, labels |-> {<<"expires", CertLife>>}]

InitPairs ==
    /\ \E names \in SUBSET AllSvcNames : secrets = [n \in names |-> SomeEntry(n)]
    /\ configs = [n \in {} |-> KeyAuth(1)]
    /\ authz = [t \in Tokens |-> "unused"]
    /\ ord = [s \in Services |-> IdleOrder]
    /\ obs = "sleep"
    /\ now = 0
    /\ tz = 0
    /\ ssl = Services
    /\ rc = [pc |-> "sleep", hash |-> -1, prev |-> -1, wrote |-> FALSE, refs |-> {},
            si |-> 0, keys |-> <<>>, objs |-> {}]
    /\ nginx = NoService
    /\ quiet = 0
    /\ probe = None

ReadLatestPair(s) ==
    /\ probe' = <<s, LatestCertPairWithVersion(secrets, s)>>
    /\ UNCHANGED <<secrets, configs, authz, ord, obs, now, tz, ssl, rc, nginx, quiet>>

NextPairs == \E s \in Services : ReadLatestPair(s)

SpecPairs == InitPairs /\ [][NextPairs]_vars


-----------------------------------------------------------------------------
(* Calls observed one at a time: probe records the call and what it gave.  *)
(* Everything but the stores, the clock and probe is at rest.              *)

NoCall == [op |-> "none"]

AtRest ==
    /\ authz = [t \in Tokens |-> "unused"]
    /\ ord = [s \in Services |-> IdleOrder]
    /\ obs = "sleep"
    /\ ssl = Services
    /\ nginx = NoService
    /\ quiet = 0

LoopAsleep == [pc |-> "sleep", hash |-> -1, prev |-> -1, wrote |-> FALSE, refs |-> {},
            si |-> 0, keys |-> <<>>, objs |-> {}]

(* common.py: DockerAdapter.write_secret, del_secret, config_write,        *)
(* config_del, called on any name with any content                         *)

StoreNames == {<<"acct">>, <<"dhparam", 0>>}
StoreData == {<<"a">>, <<"b">>}
StoreLabels == {{}, {<<"expires", 1>>}}

InitStore ==
    /\ secrets = EmptyStore
    /\ configs = EmptyStore
    /\ now = 0
    /\ tz = 0
    /\ rc = LoopAsleep
    /\ probe = NoCall
    /\ AtRest

Repeats(op, name) == probe.op = op /\ probe.name = name

OpWriteSecret(n, d, l) ==
    /\ secrets' = WriteSecret(secrets, n, d, l)
    /\ probe' = [op |-> "write_secret", name |-> n, data |-> d, labels |-> l,
                 before |-> secrets]
    /\ UNCHANGED <<configs, authz, ord, obs, now, tz, ssl, rc, nginx, quiet>>

OpDelSecret(n) ==
    /\ secrets' = DelSecret(secrets, n)
    /\ probe' = [op |-> "del_secret", name |-> n, before |-> secrets,
                 ret |-> DelReturns(secrets, n),
                 again |-> Repeats("del_secret", n)]
    /\ UNCHANGED <<configs, authz, ord, obs, now, tz, ssl, rc, nginx, quiet>>

OpConfigWrite(n, d, l) ==
    /\ configs' = ConfigWrite(configs, n, d, l)
    /\ probe' = [op |-> "config_write", name |-> n, data |-> d, labels |-> l,
                 before |-> configs]
    /\ UNCHANGED <<secrets, authz, ord, obs, now, tz, ssl, rc, nginx, quiet>>

OpConfigDel(n) ==
    /\ configs' = ConfigDel(configs, n)
    /\ probe' = [op |-> "config_del", name |-> n, before |-> configs,
                 ret |-> DelReturns(configs, n),
                 again |-> Repeats("config_del", n)]
    /\ UNCHANGED <<secrets, authz, ord, obs, now, tz, ssl, rc, nginx, quiet>>

NextStore ==
    \/ \E n \in StoreNames, d \in StoreData, l \in StoreLabels : OpWriteSecret(n, d, l)
    \/ \E n \in StoreNames : OpDelSecret(n)
    \/ \E n \in StoreNames, d \in StoreData, l \in StoreLabels : OpConfigWrite(n, d, l)
    \/ \E n \in StoreNames : OpConfigDel(n)

SpecStore == InitStore /\ [][NextStore]_vars

(* common.py: IngressService.wait_for_state, one poll per step *)

MaxPolls == 3

TaskStates == {"running", "failed", "pending"}
Tasks == [desired : {"running", "shutdown"}, state : TaskStates]
TaskLists == {l \in SUBSET Tasks : Cardinality(l) <= 2}
InvalidLists == {{}, {"failed"}, {"failed", "running"}}

AllStates(tasks) == {task.state : task \in tasks}

(* line 359-365: the states of the tasks not meant to shut down *)
LiveStates(tasks) == {task.state : task \in {k \in tasks : k.desired # "shutdown"}}

InitWait ==
    /\ secrets = EmptyStore
    /\ configs = EmptyStore
    /\ now = 0
    /\ tz = 0
    /\ rc = LoopAsleep
    /\ probe = NoCall
    /\ AtRest

WaitCall(state_desired, states_invalid) ==
    /\ probe.op = "none"
    /\ probe' = [op |-> "wait_for_state", desired |-> state_desired,
                 invalid |-> states_invalid, polls |-> <<>>, ret |-> "polling"]
    /\ UNCHANGED <<secrets, configs, authz, ord, obs, now, tz, ssl, rc, nginx, quiet>>

(* line 357-378: sleep, list the tasks, decide *)
WaitPoll(tasks) ==
    /\ probe.op = "wait_for_state"
    /\ probe.ret = "polling"
    /\ Len(probe.polls) < MaxPolls
    /\ LET states == LiveStates(tasks)
       IN  probe' = [probe EXCEPT
                        !.polls = Append(@, tasks),
                        !.ret = IF states \cap probe.invalid # {} THEN "false"
                                ELSE IF states = {probe.desired} THEN "true"
                                ELSE "polling"]
    /\ UNCHANGED <<secrets, configs, authz, ord, obs, now, tz, ssl, rc, nginx, quiet>>

(* line 358: the service is gone or the orchestrator call fails *)
WaitRaise ==
    /\ probe.op = "wait_for_state"
    /\ probe.ret = "polling"
    /\ probe' = [probe EXCEPT !.ret = "raised"]
    /\ UNCHANGED <<secrets, configs, authz, ord, obs, now, tz, ssl, rc, nginx, quiet>>

NextWait ==
    \/ \E d \in {"running"}, inv \in InvalidLists : WaitCall(d, inv)
    \/ \E tasks \in TaskLists : WaitPoll(tasks)
    \/ WaitRaise

SpecWait == InitWait /\ [][NextWait]_vars

(* challenge.py: the responder, reading what the agents have published.    *)
(* Texts are sequences of byte values; a base64 text is a sequence of      *)
(* 6-bit values, with 64 for the padding "=".                              *)

Thumbprints == {Thumbprint, "old"}

(* token t is spelled with t letters: "A", "BB", "CCC" *)
TokenText(t) == [i \in 1..t |-> 64 + t]

ThumbText(p) == IF p = Thumbprint THEN <<116, 104>> ELSE <<111>>

(* robocert.py 65: f"{token}.{thumbprint}", utf-8 *)
KeyAuthText(ka) == TokenText(ka[1]) \o <<46>> \o ThumbText(ka[2])

RECURSIVE B64Encode(_)
B64Encode(b) ==
    IF Len(b) = 0 THEN <<>>
    ELSE IF Len(b) = 1
    THEN <<b[1] \div 4, (b[1] % 4) * 16, 64, 64>>
    ELSE IF Len(b) = 2
    THEN <<b[1] \div 4, (b[1] % 4) * 16 + (b[2] \div 16), (b[2] % 16) * 4, 64>>
    ELSE <<b[1] \div 4, (b[1] % 4) * 16 + (b[2] \div 16),
           (b[2] % 16) * 4 + (b[3] \div 64), b[3] % 64>>
         \o B64Encode(SubSeq(b, 4, Len(b)))

RECURSIVE B64Decode(_)
B64Decode(c) ==
    IF Len(c) = 0 THEN <<>>
    ELSE LET first == c[1] * 4 + (c[2] \div 16)
             second == (c[2] % 16) * 16 + (c[3] \div 4)
             third == (c[3] % 4) * 64 + c[4]
         IN  (IF c[3] = 64 THEN <<first>>
              ELSE IF c[4] = 64 THEN <<first, second>>
              ELSE <<first, second, third>>)
             \o B64Decode(SubSeq(c, 5, Len(c)))

(* the orchestrator keeps and returns the data of a config base64-encoded *)
SpecData(entry) == B64Encode(KeyAuthText(entry.data))

NotFound == [status |-> 404, text |-> <<>>]

GetChallengeRaw(store, token) ==
    IF ChallengeName(token) \notin DOMAIN store THEN NotFound
    ELSE [status |-> 200, text |-> SpecData(store[ChallengeName(token)])]

(* challenge.py 28-40 *)
GetChallenge(store, token) ==
    IF ChallengeName(token) \notin DOMAIN store THEN NotFound
    ELSE [status |-> 200, text |-> B64Decode(SpecData(store[ChallengeName(token)]))]

(* entries of this account's agent and of the account it replaced *)
InitChallenge ==
    /\ secrets = EmptyStore
    /\ \E f \in [Tokens -> {"absent"} \cup Thumbprints] :
          configs = [n \in {ChallengeName(t) : t \in {u \in Tokens : f[u] # "absent"}}
                        |-> [data |-> <<n[2], f[n[2]]>>, labels |-> {}]]
    /\ now = 0
    /\ tz = 0
    /\ rc = LoopAsleep
    /\ probe = NoCall
    /\ AtRest

(* robocert.py 62-66: the agent publishes the key authorization of token t *)
Publish(t) ==
    /\ configs' = ConfigWrite(configs, ChallengeName(t), KeyAuth(t), {})
    /\ probe' = [op |-> "publish", name |-> t]
    /\ UNCHANGED <<secrets, authz, ord, obs, now, tz, ssl, rc, nginx, quiet>>

HttpGet(t) ==
    /\ probe' = [op |-> "GET", name |-> t,
                 published |-> Repeats("publish", t),
                 status |-> GetChallenge(configs, t).status,
                 text |-> GetChallenge(configs, t).text]
    /\ UNCHANGED <<secrets, configs, authz, ord, obs, now, tz, ssl, rc, nginx, quiet>>

NextChallenge ==
    \/ \E t \in Tokens : Publish(t)
    \/ \E t \in Tokens : HttpGet(t)

SpecChallenge == InitChallenge /\ [][NextChallenge]_vars

(* common.py: ServiceAdapter.cert_renewable read at any time of any cert *)

MaxExpires == 30

CertEntry(expires) ==
    [data |-> <<"cert", expires>>, labels |-> {<<"expires", expires>>}]

InitRenewable ==
    /\ \E e \in 0..MaxExpires :
          secrets = CreateSecret(
                        CreateSecret(EmptyStore, <<"svc", "s1", "key", 0>>,
                                     <<"key", "k1">>, {}),
                        <<"svc", "s1", "crt", 0>>,
                        CertEntry(e).data, CertEntry(e).labels)
    /\ configs = EmptyStore
    /\ now \in 0..MaxNow
    /\ tz \in TzOffsets
    /\ rc = LoopAsleep
    /\ probe = NoCall
    /\ AtRest

ReadRenewable(s) ==
    /\ LatestCertPair(secrets, s) # None
    /\ probe' = [op |-> "cert_renewable", name |-> s,
                 ret |-> CertRenewable(secrets, s, now, tz)]
    /\ UNCHANGED <<secrets, configs, authz, ord, obs, now, tz, ssl, rc, nginx, quiet>>

NextRenewable == \E s \in Services : ReadRenewable(s)

SpecRenewable == InitRenewable /\ [][NextRenewable]_vars

(* controller.py: main up to Controller.ensure_dhparams *)

Booting == [pc |-> "ensure_dhparams", hash |-> -1, prev |-> -1,
            wrote |-> FALSE, refs |-> {}, si |-> 0, keys |-> <<>>, objs |-> {}]

InitDhparams ==
    /\ \/ secrets = EmptyStore
       \/ \E e \in 0..(4 * SevenDays) :
             secrets = CreateSecret(EmptyStore, WithVersion(DhparamPrefix, 0),
                                    <<"dh">>, {<<"expires", e>>})
    /\ configs = EmptyStore
    /\ now = 0
    /\ tz \in TzOffsets
    /\ rc = Booting
    /\ probe = NoCall
    /\ AtRest

(* controller.py 217-221: VersionedSecrets has no attribute load_list, the *)
(* print raises AttributeError and main ends with the traceback            *)
EnsureDhparams ==
    /\ rc.pc = "ensure_dhparams"
    /\ rc' = Crashed
    /\ probe' = [op |-> "ensure_dhparams", before |-> secrets, at |-> now]
    /\ UNCHANGED <<secrets, configs, authz, ord, obs, now, tz, ssl, nginx, quiet>>

NextDhparams ==
    \/ EnsureDhparams
    \/ Advance

SpecDhparams == InitDhparams /\ [][NextDhparams]_vars

SpecDhparamsFair ==
    InitDhparams /\ [][NextDhparams]_vars /\ WF_vars(EnsureDhparams) /\ WF_vars(Advance)


(* controller.py: Controller.ensure_account and the workload             *)
(* "nginx-docker-ingress-account" it starts. probe holds the workload     *)
(* (none, one left by an earlier run, the one this call created), the      *)
(* state of its only task, and what the call did.                          *)

AcctName == <<"acct">>
AcctEntry == [data |-> <<"account">>, labels |-> {}]

AccountIdle(workload, task) ==
    [op |-> "none", pc |-> "idle", workload |-> workload, task |-> task,
     was |-> workload, before |-> EmptyStore,
     created |-> 0, removed |-> 0, seen |-> "none"]

InitAccount ==
    /\ \/ secrets = EmptyStore
       \/ secrets = [n \in {AcctName} |-> AcctEntry]
       \/ secrets = [n \in {WithVersion(DhparamPrefix, 0)} |->
                        [data |-> <<"dh">>, labels |-> {<<"expires", 4 * SevenDays>>}]]
    /\ configs = EmptyStore
    /\ now = 0
    /\ tz \in TzOffsets
    /\ rc = LoopAsleep
    /\ \/ probe = AccountIdle("none", "none")
       \/ \E t \in {"complete", "failed"} : probe = AccountIdle("old", t)
    /\ AtRest

AcctPresentNever(store) == FALSE

(* line 151: secret_exists(SECRET_ACME_ACCOUNT) *)
AcctPresent(store) == SecretExists(store, AcctName)

(* line 149-166: return at once when the secret is there; else remove a    *)
(* workload of that name if there is one, and create the workload          *)
EnsureAccountCall ==
    /\ probe.op = "none"
    /\ IF AcctPresent(secrets)
       THEN probe' = [probe EXCEPT !.op = "ensure_account", !.pc = "returned",
                                   !.before = secrets]
       ELSE probe' = [probe EXCEPT !.op = "ensure_account", !.pc = "polling",
                                   !.before = secrets,
                                   !.removed = IF probe.workload = "none" THEN 0 ELSE 1,
                                   !.created = 1,
                                   !.workload = "new", !.task = "none"]
    /\ UNCHANGED <<secrets, configs, authz, ord, obs, now, tz, ssl, rc, nginx, quiet>>

(* line 168-177: every 10 seconds the tasks are listed; there must be one; *)
(* the loop is left when its state is "complete" and on nothing else       *)
EnsureAccountPoll ==
    /\ probe.op = "ensure_account"
    /\ probe.pc = "polling"
    /\ IF probe.task = "none"
       THEN probe' = [probe EXCEPT !.pc = "raised"]
       ELSE probe' = [probe EXCEPT !.seen = probe.task,
                                   !.pc = IF probe.task = "complete"
                                          THEN "returned" ELSE "polling"]
    /\ UNCHANGED <<secrets, configs, authz, ord, obs, now, tz, ssl, rc, nginx, quiet>>

(* the orchestrator schedules the task and runs it; with the default       *)
(* RestartPolicy (line 164) a task that has ended is not started again     *)
AccountTaskStep ==
    /\ probe.workload = "new"
    /\ \/ /\ probe.task = "none"
          /\ probe' = [probe EXCEPT !.task = "pending"]
          /\ UNCHANGED secrets
       \/ /\ probe.task = "pending"
          /\ probe' = [probe EXCEPT !.task = "running"]
          /\ UNCHANGED secrets
       \/ /\ probe.task \in {"pending", "running"}
          /\ probe' = [probe EXCEPT !.task = "failed"]
          /\ UNCHANGED secrets
       \/ /\ probe.task = "running"
          /\ probe' = [probe EXCEPT !.task = "complete"]
          /\ \/ secrets' = WriteSecret(secrets, AcctName, AcctEntry.data, {})
             \/ UNCHANGED secrets
    /\ UNCHANGED <<configs, authz, ord, obs, now, tz, ssl, rc, nginx, quiet>>

NextAccount ==
    \/ EnsureAccountCall
    \/ EnsureAccountPoll
    \/ AccountTaskStep

SpecAccount == InitAccount /\ [][NextAccount]_vars

(* robot.py: main, main_ensure_account, main_observe_and_obey. probe      *)
(* records the call, whether the account could be loaded and created, and  *)
(* the code the call ended with (ended is false while it runs on).         *)

Argvs == {<<>>, <<"ensure-account">>, <<"observe-and-obey">>, <<"obey">>}

InitRobotMain ==
    /\ \/ secrets = EmptyStore
       \/ secrets = [n \in {AcctName} |-> AcctEntry]
    /\ configs = EmptyStore
    /\ now = 0
    /\ tz \in TzOffsets
    /\ rc = LoopAsleep
    /\ probe = NoCall
    /\ AtRest

(* robocert.py 35-36: the account is read from the mounted acct secret *)
Loadable == IF AcctName \in DOMAIN secrets THEN BOOLEAN ELSE {FALSE}

(* line 109-111: Robot() is built first. Robot.__init__ (line 25-32) reads *)
(* self.cert.http_01_challenge_handler, which RoboCert does not have: the  *)
(* AttributeError leaves main and asyncio.run, the interpreter prints the  *)
(* traceback and the process ends with code 1, whatever argv holds.        *)
RobotMain(argv, load, create) ==
    /\ probe' = [op |-> "main", argv |-> argv, load |-> load, create |-> create,
                 ended |-> TRUE, exit |-> 1]
    /\ UNCHANGED <<secrets, configs, authz, ord, obs, now, tz, ssl, rc, nginx, quiet>>

(* line 37-42: load the account, or create it; create_account writes the   *)
(* acct secret when the server accepts (robocert.py 38-44)                 *)
RobotEnsureAccount(load, create) == load \/ create

(* line 94-98 *)
MainEnsureAccount(load, create) ==
    /\ probe' = [op |-> "main_ensure_account", argv |-> <<"ensure-account">>,
                 load |-> load, create |-> create, ended |-> TRUE,
                 exit |-> IF RobotEnsureAccount(load, create) THEN 0 ELSE 1]
    /\ secrets' = IF ~load /\ create
                  THEN WriteSecret(secrets, AcctName, AcctEntry.data, {})
                  ELSE secrets
    /\ UNCHANGED <<configs, authz, ord, obs, now, tz, ssl, rc, nginx, quiet>>

(* line 84-91 and 101-106: when the account cannot be loaded               *)
(* observe_and_obey logs and returns, and main_observe_and_obey returns 0; *)
(* otherwise it awaits the web server and the observer loop, which run on  *)
MainObserveAndObey(load, create) ==
    /\ probe' = [op |-> "main_observe_and_obey", argv |-> <<"observe-and-obey">>,
                 load |-> load, create |-> create, ended |-> ~load, exit |-> 0]
    /\ UNCHANGED <<secrets, configs, authz, ord, obs, now, tz, ssl, rc, nginx, quiet>>

NextRobotMain ==
    \/ \E argv \in Argvs : \E load \in Loadable : \E create \in BOOLEAN :
          RobotMain(argv, load, create)
    \/ \E load \in Loadable : \E create \in BOOLEAN : MainEnsureAccount(load, create)
    \/ \E load \in Loadable : \E create \in BOOLEAN : MainObserveAndObey(load, create)
    \/ Advance

SpecRobotMain == InitRobotMain /\ [][NextRobotMain]_vars

(* common.py: VersionedBase.versions, latest_version, common_versions     *)
(* read over names as they are in the store: the part of a name after its  *)
(* last "." is a text (a sequence of character codes), which int() turns   *)
(* into the version or rejects with ValueError.                            *)

SuffixTexts == {<<48>>, <<49>>, <<45, 49>>, <<120>>}

IsDigits(text) == Len(text) > 0 /\ \A i \in 1..Len(text) : text[i] \in 48..57

(* what int() accepts: digits with an optional sign *)
IsIntText(text) ==
    \/ IsDigits(text)
    \/ Len(text) > 1 /\ text[1] \in {43, 45} /\ IsDigits(Tail(text))

RECURSIVE DigitsValue(_)
DigitsValue(text) ==
    IF text = <<>> THEN 0
    ELSE DigitsValue(SubSeq(text, 1, Len(text) - 1)) * 10 + (text[Len(text)] - 48)

IntOf(text) ==
    IF text[1] = 45 THEN 0 - DigitsValue(Tail(text))
    ELSE IF text[1] = 43 THEN DigitsValue(Tail(text))
    ELSE DigitsValue(text)

Raised == [raised |-> TRUE, value |-> None]
Returned(value) == [raised |-> FALSE, value |-> value]

(* line 416-420: the dict comprehension calls int() on every suffix *)
VersionsRead(store, prefix) ==
    LET list == ListSecrets(store, prefix)
    IN  IF \E n \in list : ~IsIntText(n[Len(n)]) THEN Raised
        ELSE Returned([v \in {IntOf(n[Len(n)]) : n \in list} |->
                         CHOOSE n \in list : IntOf(n[Len(n)]) = v])

(* line 422-437 *)
LatestRead(store, prefix) ==
    LET versions == VersionsRead(store, prefix)
    IN  IF versions.raised THEN Raised
        ELSE IF DOMAIN versions.value = {} THEN Returned(None)
        ELSE Returned(versions.value[Max(DOMAIN versions.value)])

(* line 439-446 *)
CommonVersionsRead(store, mine, other) ==
    LET my_versions == VersionsRead(store, mine)
        other_versions == VersionsRead(store, other)
    IN  IF my_versions.raised \/ other_versions.raised THEN Raised
        ELSE Returned([v \in (DOMAIN my_versions.value) \cap (DOMAIN other_versions.value) |->
                         <<my_versions.value[v], other_versions.value[v]>>])

VersionedNames ==
    {<<"dhparam", t>> : t \in SuffixTexts}
    \cup {<<"svc", "s1", "key", t>> : t \in {<<48>>, <<120>>}}
    \cup {<<"svc", "s1", "crt", t>> : t \in {<<48>>, <<45, 49>>}}

InitVersions ==
    /\ \E names \in SUBSET VersionedNames :
          secrets = [n \in names |-> [data |-> <<"x">>, labels |-> {}]]
    /\ configs = EmptyStore
    /\ now = 0
    /\ tz = 0
    /\ rc = LoopAsleep
    /\ probe = NoCall
    /\ AtRest

ReadVersions ==
    /\ probe' = [op |-> "versions", ret |-> VersionsRead(secrets, DhparamPrefix)]
    /\ UNCHANGED <<secrets, configs, authz, ord, obs, now, tz, ssl, rc, nginx, quiet>>

ReadLatest ==
    /\ probe' = [op |-> "latest", ret |-> LatestRead(secrets, DhparamPrefix)]
    /\ UNCHANGED <<secrets, configs, authz, ord, obs, now, tz, ssl, rc, nginx, quiet>>

ReadCommonVersions ==
    /\ probe' = [op |-> "common_versions",
                 ret |-> CommonVersionsRead(secrets, KeyPrefix("s1"), CertPrefix("s1"))]
    /\ UNCHANGED <<secrets, configs, authz, ord, obs, now, tz, ssl, rc, nginx, quiet>>

NextVersions ==
    \/ ReadVersions
    \/ ReadLatest
    \/ ReadCommonVersions

SpecVersions == InitVersions /\ [][NextVersions]_vars

-----------------------------------------------------------------------------
(* Properties *)

(* C1: for every service id the version of latest_cert_pair never          *)
(* decreases and never goes from defined (>= 0) to undefined (-1), in any  *)
(* interleaving of observer ticks, failing orders and reconcile passes.    *)
C1_LatestVersionNeverDecreases ==
    [][\A s \in Services :
          LatestCertVersion(secrets', s) >= LatestCertVersion(secrets, s)]_vars

C1_Witness ==
    /\ LatestCertVersion(secrets, "s1") = 1
    /\ nginx.exists
    /\ rc.pc = "certs"
    /\ \E t \in Tokens : authz[t] = "invalid"

PairedVersions(s) ==
    {v \in Versions : /\ <<"svc", s, "key", v>> \in DOMAIN secrets
                      /\ <<"svc", s, "crt", v>> \in DOMAIN secrets}

(* C2: for every content of the store, latest_cert_pair_with_version is    *)
(* undefined exactly when no version has both a key and a cert, and is     *)
(* otherwise the key and the cert of the greatest such version; a key or   *)
(* cert whose counterpart is missing is never returned.                    *)
C2_LatestPairIsMaxCommon ==
    probe # None =>
        LET s == probe[1]
            r == probe[2]
        IN  IF PairedVersions(s) = {} THEN r = None
            ELSE /\ r # None
                 /\ r[3] \in PairedVersions(s)
                 /\ \A v \in PairedVersions(s) : v <= r[3]
                 /\ r[1] = <<"svc", s, "key", r[3]>>
                 /\ r[2] = <<"svc", s, "crt", r[3]>>

C2_Witness ==
    /\ probe # None
    /\ probe[2] # None
    /\ probe[2][3] = 0
    /\ <<"svc", probe[1], "key", 1>> \in DOMAIN secrets
    /\ <<"svc", probe[1], "crt", 1>> \notin DOMAIN secrets

FamilyNext(store, prefix) ==
    IF LatestVersion(store, prefix) = None THEN 0
    ELSE LatestVersion(store, prefix)[1] + 1

(* C3: the version an order is about to write is max(existing versions of  *)
(* the family) + 1, or 0 for an empty family, for the key family and for   *)
(* the cert family: the name to be written is fresh.                       *)
C3_NewEntryUsesMaxPlusOne ==
    \A s \in Services :
        ord[s].pc \in {"auths", "chall_create", "trigger", "await_challs",
                       "await_order", "finalize", "get_cert", "del_key"}
        => /\ ord[s].next = FamilyNext(secrets, KeyPrefix(s))
           /\ ord[s].next = FamilyNext(secrets, CertPrefix(s))
           /\ KeySecretName(s) \notin DOMAIN secrets
           /\ CertSecretName(s) \notin DOMAIN secrets

(* C4 as stated: once any challenge of an order has been triggered, the    *)
(* config of every token of the order has been written.                    *)
C4_AllWritesBeforeFirstTrigger ==
    \A s \in Services :
        (ord[s].pc \in ActivePcs /\ ord[s].ti > 0) => ord[s].wi = Len(ord[s].toks)

(* C4 amended: the config of a token is written before that token's own    *)
(* challenge is triggered: the triggered tokens of an order are among its  *)
(* written ones, and the token about to be triggered is the last written.  *)
C4_WriteBeforeOwnTrigger ==
    \A s \in Services :
        ord[s].pc \in ActivePcs =>
            /\ ord[s].ti <= ord[s].wi
            /\ ord[s].pc = "trigger" => ord[s].wi = ord[s].ti + 1

C4_Witness ==
    \E s \in Services :
        /\ ord[s].pc = "auths"
        /\ Len(ord[s].toks) = 2
        /\ ord[s].ti = 1
        /\ ord[s].wi = 1
        /\ ChallengeName(ord[s].toks[2]) \notin DOMAIN configs

(* C5: the config challange.<T> exists and holds T.thumbprint when the     *)
(* trigger call for T is made and for as long as the authorization of T    *)
(* is in flight (triggered, neither valid nor invalid), whatever the other *)
(* orders do.                                                              *)
C5_ChallengeExposedWhileInFlight ==
    /\ \A t \in Tokens : authz[t] = "processing" => ChallengeAnswered(t)
    /\ \A s \in Services :
          ord[s].pc = "trigger" => ChallengeAnswered(ord[s].toks[ord[s].ti + 1])

C5_Witness ==
    /\ \A s \in Services : ord[s].pc \in {"auths", "trigger", "await_challs"}
    /\ \E t \in Tokens : authz[t] = "processing"
    /\ \E s \in Services : ord[s].pc = "trigger"

(* C6: an order that has failed left the key and cert secrets of its       *)
(* service as they were when it started.                                   *)
C6_FailedOrderPersistsNothing ==
    \A s \in Services :
        ord[s].pc = "failed" => SvcNames(secrets, s) = ord[s].snap

(* C7: after an order has failed on an invalid authorization the configs   *)
(* challange.<T> of its tokens are still there, and the observer goes on   *)
(* to a tick that starts a new order for the service.                      *)
C7_FailedOrderIsRetried ==
    /\ [](\A s \in Services :
            (ord[s].pc = "failed" /\ ord[s].why = "invalid")
            => \A i \in 1..Len(ord[s].toks) : ChallengeAnswered(ord[s].toks[i]))
    /\ \A s \in Services :
          (ord[s].pc = "failed" /\ ord[s].why = "invalid") ~> (ord[s].pc = "create")

C7_Witness ==
    \E s \in Services :
        /\ ord[s].pc = "failed"
        /\ ord[s].why = "invalid"
        /\ ord[s].need = "renew"
        /\ \E i \in 1..Len(ord[s].toks) :
              /\ authz[ord[s].toks[i]] = "invalid"
              /\ ChallengeName(ord[s].toks[i]) \in DOMAIN configs

(* C8: a first issuance that succeeds leaves key.0 and crt.0, and the      *)
(* expires label of crt.0 is the unix time of the certificate's notAfter.  *)
C8_FirstIssuance ==
    \A s \in Services :
        (ord[s].pc = "done" /\ ord[s].need = "new") =>
            /\ <<"svc", s, "key", 0>> \in DOMAIN secrets
            /\ <<"svc", s, "crt", 0>> \in DOMAIN secrets
            /\ Label(secrets[<<"svc", s, "crt", 0>>], "expires")
                  = secrets[<<"svc", s, "crt", 0>>].data[2]

(* C9: no step removes or changes a key or cert entry whose version is at  *)
(* most the version of the latest pair, and a renewal that succeeds from   *)
(* latest version N leaves key.(N+1) and crt.(N+1) as the latest pair.     *)
C9_RenewalKeepsOldVersions ==
    [][\A s \in Services :
          /\ \A n \in SvcNames(secrets, s) :
                n[4] <= LatestCertVersion(secrets, s)
                => (n \in DOMAIN secrets' /\ secrets'[n] = secrets[n])
          /\ (ord[s].pc # "done" /\ ord'[s].pc = "done" /\ ord[s].need = "renew")
             => /\ <<"svc", s, "key", ord[s].base + 1>> \in DOMAIN secrets'
                /\ <<"svc", s, "crt", ord[s].base + 1>> \in DOMAIN secrets'
                /\ LatestCertVersion(secrets', s) = ord[s].base + 1]_vars

C9_Witness ==
    \E s \in Services :
        /\ ord[s].pc = "done"
        /\ ord[s].need = "renew"
        /\ ord[s].base = 0
        /\ LatestCertVersion(secrets, s) = 1

(* C10: a reconcile pass that follows another with no change of the store  *)
(* in between computes the same conf.<hash> name and does not call         *)
(* write_secret.                                                           *)
C10_SecondPassWritesNothing ==
    (rc.pc \in {"dhparams", "keys", "certs", "service"} /\ quiet = 2)
    => (rc.hash = rc.prev /\ ~rc.wrote)

C10_Witness ==
    /\ rc.pc = "dhparams"
    /\ quiet = 2
    /\ nginx.exists
    /\ LatestCertVersion(secrets, "s1") = 0
    /\ ConfName(rc.hash) \in DOMAIN secrets

LatestPairNames(s) ==
    IF PairedVersions(s) = {} THEN {}
    ELSE {<<"svc", s, "key", Max(PairedVersions(s))>>,
          <<"svc", s, "crt", Max(PairedVersions(s))>>}

LatestDhparamName ==
    <<"dhparam", Max({n[2] : n \in ListSecrets(secrets, DhparamPrefix)})>>

C12_OldAndNewVersionMounted ==
    [][\A s \in Services : \A v \in Versions :
          (/\ nginx.exists
           /\ {<<"svc", s, "key", v>>, <<"svc", s, "crt", v>>} \subseteq nginx.secrets
           /\ {<<"svc", s, "key", v + 1>>, <<"svc", s, "crt", v + 1>>}
                 \subseteq nginx'.secrets
           /\ nginx' # nginx)
          => {<<"svc", s, "key", v>>, <<"svc", s, "crt", v>>}
                 \subseteq nginx'.secrets]_vars

(* C17: a tick of the observer starts an order for a service exactly when  *)
(* the service has the ssl label and either has no latest pair (the order  *)
(* is classified "new") or its latest cert is renewable ("renew"), as long *)
(* as the version bound of the model leaves room for a new version.        *)
C17_OrderStartedIffNeeded ==
    [][(obs = "sleep" /\ obs' = "wait") =>
          \A s \in Services :
             LET labelled == s \in ssl
                 nopair == PairedVersions(s) = {}
                 renew == ~nopair /\ CertRenewable(secrets, s, now, tz)
                 room == \A v \in PairedVersions(s) : v < MaxVersion
             IN  /\ (ord'[s].pc = "create") <=> (labelled /\ (nopair \/ renew) /\ room)
                 /\ (ord'[s].pc # "create") => ord'[s].pc = "idle"
                 /\ (ord'[s].pc = "create") =>
                       ord'[s].need = (IF nopair THEN "new" ELSE "renew")]_vars

C17_Witness ==
    /\ obs = "wait"
    /\ ord["s1"].pc = "create"
    /\ ord["s1"].need = "renew"
    /\ ord["s2"].pc = "idle"
    /\ "s2" \notin ssl

(* C13: wait_for_state returns true exactly at the first poll in which the *)
(* states of the live tasks (tasks meant to shut down are ignored) are     *)
(* {desired}, provided no invalid state was seen among live tasks up to    *)
(* and including that poll; it returns false exactly at the first poll     *)
(* that shows an invalid state, also when desired shows in the same poll;  *)
(* until then it keeps polling.                                            *)
C13_WaitForState ==
    probe.op = "wait_for_state" =>
        LET n == Len(probe.polls)
            live(i) == {k.state : k \in {x \in probe.polls[i] : x.desired = "running"}}
            bad(i) == live(i) \cap probe.invalid # {}
            good(i) == live(i) = {probe.desired}
        IN  /\ probe.ret = "true" <=> (n > 0 /\ good(n) /\ \A i \in 1..n : ~bad(i))
            /\ probe.ret = "false" <=> (n > 0 /\ bad(n))
            /\ probe.ret \in {"true", "false"} =>
                  \A i \in 1..(n - 1) : ~bad(i) /\ ~good(i)
            /\ probe.ret = "polling" => \A i \in 1..n : ~bad(i) /\ ~good(i)

C13_Witness ==
    /\ probe.op = "wait_for_state"
    /\ probe.ret = "false"
    /\ Len(probe.polls) = 2
    /\ \E k \in probe.polls[2] : k.desired = "running" /\ k.state = probe.desired
    /\ \E k \in probe.polls[1] : k.desired = "shutdown" /\ k.state \in probe.invalid

WritePost(store) ==
    /\ probe.name \in DOMAIN store
    /\ store[probe.name] = [data |-> probe.data, labels |-> probe.labels]
    /\ DOMAIN store = DOMAIN probe.before \cup {probe.name}
    /\ \A n \in DOMAIN store \ {probe.name} : store[n] = probe.before[n]

(* C14: after write_secret or config_write on a name, whether or not the   *)
(* name had an entry, the store has an entry of that name with the new     *)
(* bytes and labels, and every other entry is as it was.                   *)
C14_WriteReplacesEntry ==
    /\ probe.op = "write_secret" => WritePost(secrets)
    /\ probe.op = "config_write" => WritePost(configs)

C14_Witness ==
    /\ probe.op = "write_secret"
    /\ probe.name \in DOMAIN probe.before
    /\ probe.before[probe.name] # secrets[probe.name]
    /\ DOMAIN secrets # {probe.name}

DelPost(store) ==
    /\ probe.ret = (probe.name \in DOMAIN probe.before)
    /\ probe.name \notin DOMAIN store
    /\ DOMAIN store = DOMAIN probe.before \ {probe.name}
    /\ \A n \in DOMAIN store : store[n] = probe.before[n]
    /\ probe.again => (~probe.ret /\ store = probe.before)

(* C15: del_secret and config_del return true exactly when the name had an *)
(* entry, leave no entry of that name and change no other entry; a second  *)
(* call on the same name returns false and leaves the store unchanged.     *)
C15_DeleteIdempotent ==
    /\ probe.op = "del_secret" => DelPost(secrets)
    /\ probe.op = "config_del" => DelPost(configs)

C15_Witness ==
    /\ probe.op = "del_secret"
    /\ probe.again
    /\ ~probe.ret
    /\ DOMAIN secrets # {}

(* C16: GET of token T answers 404 when challange.<T> is absent and        *)
(* otherwise 200 with the content of challange.<T> as body; right after    *)
(* the agent has published T the body is T + "." + thumbprint.             *)
C16_ChallengeRoundTrip ==
    probe.op = "GET" =>
        LET name == ChallengeName(probe.name)
        IN  /\ name \notin DOMAIN configs => probe.status = 404
            /\ name \in DOMAIN configs =>
                  /\ probe.status = 200
                  /\ probe.text = KeyAuthText(configs[name].data)
            /\ probe.published =>
                  /\ probe.status = 200
                  /\ probe.text = TokenText(probe.name) \o <<46>> \o ThumbText(Thumbprint)

C16_Witness ==
    /\ probe.op = "GET"
    /\ probe.published
    /\ probe.name = 1
    /\ probe.text = <<65, 46, 116, 104>>

(* C18: cert_renewable is true exactly when the expires label of the       *)
(* latest cert, a unix time, is less than 7 days after the current time.   *)
C18_RenewableIffWithinSevenDays ==
    probe.op = "cert_renewable" =>
        (probe.ret <=>
            Label(secrets[<<"svc", probe.name, "crt", 0>>], "expires") - now < SevenDays)

TwentyEightDays == 56

(* C19: ensure_dhparams leaves the store unchanged when the latest dhparam *)
(* secret has more than 7 days left, and otherwise adds dhparam.<latest+1> *)
(* (dhparam.0 when there is none) with expires = now + 28 days.            *)
C19_EnsureDhparamsWrites ==
    probe.op = "ensure_dhparams" =>
        LET latest == LatestVersion(probe.before, DhparamPrefix)
            next == IF latest = None THEN 0 ELSE latest[1] + 1
            name == WithVersion(DhparamPrefix, next)
        IN  IF latest # None
               /\ Label(probe.before[latest[2]], "expires") - probe.at > SevenDays
            THEN secrets = probe.before
            ELSE /\ name \in DOMAIN secrets
                 /\ Label(secrets[name], "expires") = probe.at + TwentyEightDays
                 /\ \A n \in DOMAIN probe.before : secrets[n] = probe.before[n]

(* C20: whenever the controller runs and the latest dhparam secret has     *)
(* less than 7 days left, a newer dhparam version is eventually written.   *)
C20_DhparamsEventuallyRenewed ==
    (/\ rc.pc # "dead"
     /\ LatestVersion(secrets, DhparamPrefix) # None
     /\ \A n \in ListSecrets(secrets, DhparamPrefix) :
           Label(secrets[n], "expires") - now < SevenDays)
    ~> (\E n \in ListSecrets(secrets, DhparamPrefix) : n[2] > 0)

(* C21: an error raised inside one pass of ensure_nginx_service (a failed  *)
(* orchestrator call, a missing dhparam secret) does not end the reconcile *)
(* loop: the controller is still running after it.                         *)
C21_LoopSurvivesErrors ==
    rc.pc # "dead"

(* C22: in a tick that runs orders for two services, the failure of one  *)
(* (a false return or a raise) does not hold up the other: the other can   *)
(* still write its key and its certificate, and the tick ends (which it   *)
(* does when every order has ended), so the observer goes on to later      *)
(* ticks.                                                                  *)
C22_FailureIsIsolated ==
    /\ [](\A a \in Services : \A b \in Services \ {a} :
            ord[a].pc = "failed" =>
                /\ ord[b].pc = "write_key" => ENABLED WriteKey(b)
                /\ ord[b].pc = "write_cert" => ENABLED WriteCert(b)
                /\ ord[b].pc \in ActivePcs => RobotFree(b))
    /\ (\E a \in Services : ord[a].pc = "failed") ~> (obs = "sleep")

C22_Witness ==
    \E a \in Services : \E b \in Services \ {a} :
        /\ ord[a].pc = "failed"
        /\ ord[b].pc = "done"
        /\ ord[a].toks # <<>>
        /\ ord[b].toks # <<>>
        /\ ord[a].toks[1] < ord[b].toks[1]
        /\ WithVersion(CertPrefix(b), 0) \in DOMAIN secrets
        /\ WithVersion(CertPrefix(a), 0) \notin DOMAIN secrets

(* C23: a service's order begins only when a tick starts, so a tick runs   *)
(* at most one order for a service, while the orders of different services *)
(* run side by side; a tick starts only when no order of the tick before   *)
(* is still running; two orders that run side by side write and delete     *)
(* different secret names, and a step that changes the secret store        *)
(* changes only the names of the order that takes it.                      *)
C23_OneOrderPerServiceAndTick ==
    /\ [](obs = "sleep" => \A s \in Services : ord[s].pc \notin ActivePcs)
    /\ [](\A a \in Services : \A b \in Services \ {a} :
            (ord[a].pc \in ActivePcs /\ ord[b].pc \in ActivePcs)
            => {KeySecretName(a), CertSecretName(a)}
                  \cap {KeySecretName(b), CertSecretName(b)} = {})
    /\ [][/\ \A s \in Services :
               (ord'[s].pc = "create" /\ ord[s] # ord'[s])
               => (obs = "sleep" /\ obs' = "wait")
          /\ (obs = "sleep" /\ obs' = "wait")
               => \A s \in Services : ord[s].pc \notin ActivePcs
          /\ secrets' # secrets
               => \E s \in Services :
                     /\ ord[s].pc \in SyncPcs
                     /\ ord'[s] # ord[s]
                     /\ \A n \in (DOMAIN secrets \cup DOMAIN secrets') :
                           (n \notin DOMAIN secrets \/ n \notin DOMAIN secrets'
                              \/ secrets[n] # secrets'[n])
                           => n \in {KeySecretName(s), CertSecretName(s)}
                     /\ \A o \in Services \ {s} :
                           /\ ord'[o] = ord[o]
                           /\ KeySecretName(o) \notin {KeySecretName(s), CertSecretName(s)}
                           /\ CertSecretName(o) \notin {KeySecretName(s), CertSecretName(s)}
         ]_vars

C23_Witness ==
    /\ obs = "wait"
    /\ ord["s1"].pc = "write_cert"
    /\ ord["s2"].pc = "await_challs"
    /\ ord["s1"].next = 1

(* C24: when the acct secret is there, ensure_account returns without    *)
(* creating, updating or removing a workload and without writing a secret. *)
C24_EnsureAccountNoOpWhenPresent ==
    (probe.op = "ensure_account" /\ AcctName \in DOMAIN probe.before) =>
        /\ probe.pc = "returned"
        /\ probe.created = 0
        /\ probe.removed = 0
        /\ probe.workload = probe.was
        /\ secrets = probe.before

C24_Witness ==
    /\ probe.op = "ensure_account"
    /\ AcctName \in DOMAIN probe.before
    /\ probe.pc = "returned"
    /\ probe.was = "old"
    /\ AcctName \in DOMAIN secrets

(* C25: when the acct secret is not there, ensure_account runs the         *)
(* account workload, returns only after having seen its task complete,     *)
(* and has removed the workload by the time it returns.                    *)
C25_AccountWorkloadRemovedOnReturn ==
    (/\ probe.op = "ensure_account"
     /\ AcctName \notin DOMAIN probe.before
     /\ probe.pc = "returned") =>
        /\ probe.created = 1
        /\ probe.seen = "complete"
        /\ probe.workload = "none"

(* C26: once ensure_account has seen the task of the account workload in   *)
(* state failed it is no longer waiting.                                   *)
C26_FailedTaskEndsWait ==
    (probe.op = "ensure_account" /\ probe.seen = "failed") => probe.pc # "polling"

(* C27: the worker ends with code 0 on success and 1 on failure: in mode  *)
(* ensure-account 0 when the account was loaded or created and 1 when it   *)
(* was neither; in mode observe-and-obey 1 when the account cannot be      *)
(* loaded; 1 on any other argument.                                        *)
C27_ExitCodes ==
    probe.op \in {"main", "main_ensure_account", "main_observe_and_obey"} =>
        /\ probe.argv = <<"ensure-account">> =>
              /\ probe.ended
              /\ probe.exit = IF probe.load \/ probe.create THEN 0 ELSE 1
        /\ probe.argv = <<"observe-and-obey">> =>
              /\ ~probe.load => (probe.ended /\ probe.exit = 1)
              /\ probe.ended => probe.exit = IF probe.load THEN 0 ELSE 1
        /\ probe.argv \notin {<<"ensure-account">>, <<"observe-and-obey">>} =>
              (probe.ended /\ probe.exit = 1)

VersionsIgnoringOthers(store, prefix) ==
    LET list == {n \in ListSecrets(store, prefix) : IsDigits(n[Len(n)])}
    IN  Returned([v \in {IntOf(n[Len(n)]) : n \in list} |->
                    CHOOSE n \in list : IntOf(n[Len(n)]) = v])

(* C28: versions() maps the integer suffix of every entry whose suffix   *)
(* is a non-negative integer to that entry; an entry with any other        *)
(* suffix raises no error and has no part in what versions(), latest() and *)
(* common_versions() give.                                                 *)
C28_OtherSuffixesIgnored ==
    /\ probe.op = "versions" =>
          probe.ret = VersionsIgnoringOthers(secrets, DhparamPrefix)
    /\ probe.op = "latest" =>
          LET versions == VersionsIgnoringOthers(secrets, DhparamPrefix).value
          IN  probe.ret = Returned(IF DOMAIN versions = {} THEN None
                                   ELSE versions[Max(DOMAIN versions)])
    /\ probe.op = "common_versions" =>
          LET my_versions == VersionsIgnoringOthers(secrets, KeyPrefix("s1")).value
              other_versions == VersionsIgnoringOthers(secrets, CertPrefix("s1")).value
          IN  probe.ret =
                Returned([v \in (DOMAIN my_versions) \cap (DOMAIN other_versions) |->
                            <<my_versions[v], other_versions[v]>>])

(* C30: when the proxy service exists and the secret mounted as its       *)
(* nginx.conf has the name of the conf.<hash> computed in this pass, the   *)
(* pass ends without a service update: the proxy's configuration name and  *)
(* mounted secrets are after the pass what they were before it.            *)
C30_SameConfNameNoUpdate ==
    [][(/\ rc.pc = "service"
        /\ rc'.pc = "sleep"
        /\ nginx.exists
        /\ nginx.conf = ConfName(rc.hash))
       => nginx' = nginx]_vars

C30_Witness ==
    /\ rc.pc = "sleep"
    /\ nginx.exists
    /\ rc.hash >= 0
    /\ rc.prev = rc.hash
    /\ nginx.conf = ConfName(rc.hash)
    /\ nginx.secrets # rc.refs

(* C29: in any interleaving of a reconcile pass with an order, the key    *)
(* and the cert of every pair the pass collects for the proxy are of the   *)
(* same service and version, and both are secrets of the store as the pair *)
(* is collected: the key object listed is still the secret of that name.   *)
C29_PairReadIsConsistent ==
    [][(rc.pc = "certs" /\ rc'.pc # "dead") =>
          LET read == rc'.objs \ rc.objs
          IN  /\ \A o \in read :
                    /\ o[1] \in DOMAIN secrets
                    /\ secrets[o[1]] = o[2]
              /\ \A o \in read :
                    o[1][3] = "key" =>
                        \E c \in read : /\ c[1][3] = "crt"
                                        /\ c[1][2] = o[1][2]
                                        /\ c[1][4] = o[1][4]
              /\ \A o \in read :
                    o[1][3] = "crt" =>
                        \E k \in read : /\ k[1][3] = "key"
                                        /\ k[1][2] = o[1][2]
                                        /\ k[1][4] = o[1][4]]_vars

=============================================================================
